---- MODULE Spec2Model ----
(***************************************************************************)
(* A model of bareasgi_cors.CORSMiddleware (src/bareasgi_cors/             *)
(* cors_provider.py): the constructor, the three paths of __call__         *)
(* (pass-through, preflight, simple response) and the header helpers they  *)
(* use.                                                                    *)
(*                                                                         *)
(* Byte strings and strings are sequences of symbols.  A symbol is a TLA+  *)
(* string standing for a run of bytes that holds no comma and no white     *)
(* space ("GET", "Origin", "a"), or one of the three special symbols       *)
(* COMMA, SP (one white space byte) and XFF (one byte that is no UTF-8).   *)
(* A header is a pair <<name, value>>; a header list is a sequence of      *)
(* headers, names may repeat.  None stands for Python's None.              *)
(***************************************************************************)
EXTENDS Integers, Sequences, FiniteSets, TLC

\* Optional[T]: None is the empty wrapper, a present value x is Some(x).
None == <<>>
Some(x) == <<x>>

COMMA == ","
SP == " "
XFF == "xFF"

ACCESS_CONTROL_ALLOW_CREDENTIALS == "access-control-allow-credentials"
ACCESS_CONTROL_ALLOW_HEADERS == "access-control-allow-headers"
ACCESS_CONTROL_ALLOW_METHODS == "access-control-allow-methods"
ACCESS_CONTROL_ALLOW_ORIGIN == "access-control-allow-origin"
ACCESS_CONTROL_EXPOSE_HEADERS == "access-control-expose-headers"
ACCESS_CONTROL_MAX_AGE == "access-control-max-age"
ACCESS_CONTROL_REQUEST_METHOD == "access-control-request-method"
ACCESS_CONTROL_REQUEST_HEADERS == "access-control-request-headers"
COOKIE == "cookie"
ORIGIN == "origin"
VARY == "vary"

ALL_METHODS == {<<"DELETE">>, <<"GET">>, <<"OPTIONS">>, <<"PATCH">>, <<"POST">>, <<"PUT">>}

(***************************************************************************)
(* Python's built-in conversions on bytes and str.                         *)
(***************************************************************************)

\* bool(x) of an Optional[bytes]: true iff it is present and not empty.
Truthy(opt) == opt # None /\ opt[1] # <<>>

\* bool(x) of an Optional[AbstractSet]: true iff it is present and not empty.
TruthySet(opt) == opt # None /\ opt[1] # {}

\* bytes.decode(): the same symbols as a str; UnicodeDecodeError (ok is
\* FALSE) on a byte that is no UTF-8.
decode(b) == [ok |-> \A k \in 1..Len(b) : b[k] # XFF, str |-> b]

\* repr(b) of a bytes value, as an f-string's {b!r} writes it.
repr(b) == <<"b'">> \o b \o <<"'">>

\* str.split(","): the pieces between the commas; never an empty list.
RECURSIVE split(_)
split(s) ==
  IF \A k \in 1..Len(s) : s[k] # COMMA
  THEN <<s>>
  ELSE LET k == CHOOSE j \in 1..Len(s) :
                  s[j] = COMMA /\ \A m \in 1..(j - 1) : s[m] # COMMA
       IN  <<SubSeq(s, 1, k - 1)>> \o split(SubSeq(s, k + 1, Len(s)))

\* str.strip(): leading and trailing white space removed.
RECURSIVE strip(_)
strip(s) ==
  IF s = <<>> THEN s
  ELSE IF Head(s) = SP THEN strip(Tail(s))
  ELSE IF s[Len(s)] = SP THEN strip(SubSeq(s, 1, Len(s) - 1))
  ELSE s

\* sep.join(items) for a sequence of strings.
RECURSIVE join(_, _)
join(sep, items) ==
  IF items = <<>> THEN <<>>
  ELSE IF Len(items) = 1 THEN items[1]
  ELSE items[1] \o sep \o join(sep, Tail(items))

\* The order in which Python iterates a set: one fixed order per set.
RECURSIVE iterate(_)
iterate(S) ==
  IF S = {} THEN <<>>
  ELSE LET x == CHOOSE y \in S : TRUE IN <<x>> \o iterate(S \ {x})

\* re.compile(pattern).match(s) for a pattern of literal symbols: the
\* pattern matches at the start of s.
match(pattern, s) ==
  /\ Len(pattern) <= Len(s)
  /\ SubSeq(s, 1, Len(pattern)) = pattern

(***************************************************************************)
(* bareutils.header: find, upsert, to_dict on header lists.                *)
(***************************************************************************)

\* header.find(name, headers): the value of the first header of that name,
\* None when there is none.
find(name, headers) ==
  IF \E k \in 1..Len(headers) : headers[k][1] = name
  THEN Some(headers[CHOOSE k \in 1..Len(headers) :
                      /\ headers[k][1] = name
                      /\ \A m \in 1..(k - 1) : headers[m][1] # name][2])
  ELSE None

\* A plausible bug: every upsert appends.
upsert_appends(name, value, headers) == Append(headers, <<name, value>>)

\* header.upsert(name, value, headers): the first header of that name gets
\* the value, or the header is appended.
upsert(name, value, headers) ==
  IF \E k \in 1..Len(headers) : headers[k][1] = name
  THEN LET k == CHOOSE j \in 1..Len(headers) :
                  /\ headers[j][1] = name
                  /\ \A m \in 1..(j - 1) : headers[m][1] # name
       IN  [headers EXCEPT ![k] = <<name, value>>]
  ELSE Append(headers, <<name, value>>)

\* header.to_dict(headers): `name in to_dict(headers)`.
has_header(name, headers) == \E k \in 1..Len(headers) : headers[k][1] = name

\* header.to_dict(headers)[name][0]: the first value under that name.
first_value(name, headers) == find(name, headers)[1]

(***************************************************************************)
(* CORSMiddleware.__init__                                                 *)
(***************************************************************************)

\* The default of the max_age parameter.
max_age_default == 600

\* A plausible bug: an empty allow_origins set is taken for "any origin".
allow_all_origins_if_empty(allow_origins) == ~TruthySet(allow_origins)

\* self.allow_all_origins = allow_origins is None
allow_all_origins_of(allow_origins) == allow_origins = None

\* The fields of the engine after __init__(**args).
Construct(args) ==
  LET allow_methods == IF args.allow_methods # None
                       THEN args.allow_methods[1] ELSE ALL_METHODS
      allow_all_origins == allow_all_origins_of(args.allow_origins)
      simple1 == IF allow_all_origins
                 THEN <<<<ACCESS_CONTROL_ALLOW_ORIGIN, <<"*">>>>>>
                 ELSE <<>>
      simple2 == IF args.allow_credentials
                 THEN Append(simple1, <<ACCESS_CONTROL_ALLOW_CREDENTIALS, <<"true">>>>)
                 ELSE simple1
      simple3 == IF TruthySet(args.expose_headers)
                 THEN Append(simple2,
                        <<ACCESS_CONTROL_EXPOSE_HEADERS,
                          join(<<COMMA, SP>>, iterate(args.expose_headers[1]))>>)
                 ELSE simple2
      pre1 == IF allow_all_origins
              THEN <<<<ACCESS_CONTROL_ALLOW_ORIGIN, <<"*">>>>>>
              ELSE <<<<VARY, <<"Origin">>>>>>
      pre2 == pre1 \o
              << <<ACCESS_CONTROL_ALLOW_METHODS,
                   join(<<COMMA, SP>>, iterate(allow_methods))>>,
                 <<ACCESS_CONTROL_MAX_AGE, <<ToString(args.max_age)>>>> >>
      pre3 == IF args.allow_headers = None
              THEN pre2
              ELSE Append(pre2,
                     <<ACCESS_CONTROL_ALLOW_HEADERS,
                       join(<<COMMA, SP>>, iterate(args.allow_headers[1]))>>)
      pre4 == IF args.allow_credentials
              THEN Append(pre3, <<ACCESS_CONTROL_ALLOW_CREDENTIALS, <<"true">>>>)
              ELSE pre3
  IN  [ allow_methods      |-> allow_methods,
        allow_all_origins  |-> allow_all_origins,
        allow_origins      |-> IF allow_all_origins THEN None ELSE args.allow_origins,
        simple_headers     |-> simple3,
        preflight_headers  |-> pre4,
        allow_all_headers  |-> args.allow_headers = None,
        allow_headers      |-> args.allow_headers,
        allow_origin_regex |-> args.allow_origin_regex ]

(***************************************************************************)
(* CORSMiddleware._is_allowed_origin                                       *)
(***************************************************************************)

\* The result of a call that returns a bool or raises.
Returns(value) == [raised |-> "", value |-> value]
Raises(kind) == [raised |-> kind, value |-> FALSE]

\* An _is_allowed_origin that admits every origin that decodes.
is_allowed_origin_unchecked(self, origin) ==
  IF self.allow_all_origins THEN Returns(TRUE)
  ELSE IF ~decode(origin).ok THEN Raises("UnicodeDecodeError")
  ELSE Returns(TRUE)

\* A plausible bug: the explicit set is consulted only when no regex is
\* configured.
is_allowed_origin_regex_only(self, origin) ==
  IF self.allow_all_origins THEN Returns(TRUE)
  ELSE IF ~decode(origin).ok THEN Raises("UnicodeDecodeError")
  ELSE IF self.allow_origin_regex # None
       THEN Returns(match(self.allow_origin_regex[1], decode(origin).str))
  ELSE IF self.allow_origins = None THEN Returns(FALSE)
  ELSE Returns(decode(origin).str \in self.allow_origins[1])

\* self._is_allowed_origin(origin=origin), origin a bytes value.
is_allowed_origin(self, origin) ==
  IF self.allow_all_origins THEN Returns(TRUE)
  ELSE IF ~decode(origin).ok THEN Raises("UnicodeDecodeError")
  ELSE LET origin_str == decode(origin).str IN
       IF /\ self.allow_origin_regex # None
          /\ match(self.allow_origin_regex[1], origin_str)
       THEN Returns(TRUE)
       ELSE IF self.allow_origins = None THEN Returns(FALSE)
       ELSE Returns(origin_str \in self.allow_origins[1])

(***************************************************************************)
(* Responses.  What a call of the middleware or of the handler ends with:  *)
(* an HttpResponse(status, headers, body, pushes), or an exception that    *)
(* leaves the call (raised names its class).                               *)
(***************************************************************************)

HttpResponse(status, headers, body, pushes) ==
  [raised |-> "", status |-> status, headers |-> headers, body |-> body,
   pushes |-> pushes]

Exception(kind) ==
  [raised |-> kind, status |-> 0, headers |-> None, body |-> <<>>,
   pushes |-> None]

\* text_writer(text): the body that writes text.
text_writer(text) == text

(***************************************************************************)
(* CORSMiddleware._preflight_check                                         *)
(***************************************************************************)

\* The first piece of the requested headers that, stripped, is not in
\* allow_headers (0 when every piece is): the for loop of lines 155-157.
first_invalid_header(pieces, allow_headers) ==
  IF \E k \in 1..Len(pieces) : strip(pieces[k]) \notin allow_headers
  THEN CHOOSE k \in 1..Len(pieces) :
         /\ strip(pieces[k]) \notin allow_headers
         /\ \A m \in 1..(k - 1) : strip(pieces[m]) \in allow_headers
  ELSE 0

\* The requested-headers step, lines 146-157, on the headers so far.
preflight_headers_step(self, request_headers, response_headers) ==
  IF ~has_header(ACCESS_CONTROL_REQUEST_HEADERS, request_headers)
  THEN HttpResponse(200, Some(response_headers), text_writer(<<"OK">>), None)
  ELSE LET access_control_request_header ==
             first_value(ACCESS_CONTROL_REQUEST_HEADERS, request_headers)
       IN
       IF self.allow_all_headers
       THEN HttpResponse(200,
              Some(upsert(ACCESS_CONTROL_ALLOW_HEADERS,
                          access_control_request_header, response_headers)),
              text_writer(<<"OK">>), None)
       ELSE IF TruthySet(self.allow_headers)
       THEN IF ~decode(access_control_request_header).ok
            THEN Exception("UnicodeDecodeError")
            ELSE LET pieces == split(decode(access_control_request_header).str)
                     bad == first_invalid_header(pieces, self.allow_headers[1])
                 IN  IF bad # 0
                     THEN HttpResponse(400, Some(response_headers),
                            text_writer(<<"Invalid", SP, "header", SP>> \o pieces[bad]), None)
                     ELSE HttpResponse(200, Some(response_headers),
                            text_writer(<<"OK">>), None)
       ELSE HttpResponse(200, Some(response_headers), text_writer(<<"OK">>), None)

\* The requested-method step, lines 140-142, then the headers step.
preflight_method_step(self, request_headers, response_headers) ==
  LET requested_method ==
        first_value(ACCESS_CONTROL_REQUEST_METHOD, request_headers)
  IN  IF ~decode(requested_method).ok
      THEN Exception("UnicodeDecodeError")
      ELSE IF decode(requested_method).str \notin self.allow_methods
      THEN HttpResponse(400, Some(response_headers),
             text_writer(<<"Invalid", SP, "method", SP>> \o repr(requested_method)), None)
      ELSE preflight_headers_step(self, request_headers, response_headers)

\* A _preflight_check that looks at the requested method before the origin.
preflight_check_method_first(self, request_headers) ==
  LET response_headers == self.preflight_headers
      requested_origin == first_value(ORIGIN, request_headers)
      requested_method ==
        first_value(ACCESS_CONTROL_REQUEST_METHOD, request_headers)
      allowed == is_allowed_origin(self, requested_origin)
  IN  IF /\ decode(requested_method).ok
         /\ decode(requested_method).str \notin self.allow_methods
      THEN HttpResponse(400, Some(response_headers),
             text_writer(<<"Invalid", SP, "method", SP>> \o repr(requested_method)), None)
      ELSE IF allowed.raised # ""
      THEN Exception(allowed.raised)
      ELSE IF ~allowed.value
      THEN HttpResponse(400, Some(response_headers),
             text_writer(<<"Invalid", SP, "origin", SP>> \o repr(requested_origin)), None)
      ELSE preflight_method_step(self, request_headers,
             IF ~self.allow_all_origins
             THEN upsert(ACCESS_CONTROL_ALLOW_ORIGIN, requested_origin,
                         response_headers)
             ELSE response_headers)

\* self._preflight_check(request_header_map): the response, or the
\* exception that is no RuntimeError and so leaves the method.
preflight_check(self, request_headers) ==
  LET response_headers == self.preflight_headers
      requested_origin == first_value(ORIGIN, request_headers)
      allowed == is_allowed_origin(self, requested_origin)
  IN  IF allowed.raised # ""
      THEN Exception(allowed.raised)
      ELSE IF ~allowed.value
      THEN HttpResponse(400, Some(response_headers),
             text_writer(<<"Invalid", SP, "origin", SP>> \o repr(requested_origin)), None)
      ELSE preflight_method_step(self, request_headers,
             IF ~self.allow_all_origins
             THEN upsert(ACCESS_CONTROL_ALLOW_ORIGIN, requested_origin,
                         response_headers)
             ELSE response_headers)

(***************************************************************************)
(* CORSMiddleware._simple_response, from the handler's return on           *)
(***************************************************************************)

\* for name, value in simple_headers: header.upsert(name, value, headers)
RECURSIVE apply_simple_headers(_, _)
apply_simple_headers(simple_headers, headers) ==
  IF simple_headers = <<>> THEN headers
  ELSE apply_simple_headers(Tail(simple_headers),
         upsert(simple_headers[1][1], simple_headers[1][2], headers))

\* Lines 215-219: the vary header of a mirrored origin.
add_vary(headers) ==
  LET vary_values == find(VARY, headers)
  IN  IF ~Truthy(vary_values)
      THEN Append(headers, <<VARY, <<"Origin">>>>)
      ELSE upsert(VARY, vary_values[1] \o <<COMMA, "Origin">>, headers)

\* Lines 193-229: the engine's simple_headers and the call's result, given
\* the response the handler returned.
simple_response(self, request, response) ==
  LET request_headers == request.headers
      headers == IF response.headers = None THEN <<>> ELSE response.headers[1]
      origin == find(ORIGIN, request_headers)
  IN  IF origin = None
      THEN [simple_headers |-> self.simple_headers,
            result |-> Exception("AssertionError")]
      ELSE IF self.allow_all_origins /\ Truthy(find(COOKIE, request_headers))
      THEN LET mutated == upsert(ACCESS_CONTROL_ALLOW_ORIGIN, origin[1],
                                 self.simple_headers)
           IN  [simple_headers |-> mutated,
                result |-> HttpResponse(response.status,
                             Some(apply_simple_headers(mutated, headers)),
                             response.body, response.pushes)]
      ELSE IF self.allow_all_origins
      THEN [simple_headers |-> self.simple_headers,
            result |-> HttpResponse(response.status,
                         Some(apply_simple_headers(self.simple_headers, headers)),
                         response.body, response.pushes)]
      ELSE LET allowed == is_allowed_origin(self, origin[1])
           IN  IF allowed.raised # ""
               THEN [simple_headers |-> self.simple_headers,
                     result |-> Exception(allowed.raised)]
               ELSE [simple_headers |-> self.simple_headers,
                     result |-> HttpResponse(response.status,
                        Some(apply_simple_headers(self.simple_headers,
                          IF allowed.value
                          THEN add_vary(upsert(ACCESS_CONTROL_ALLOW_ORIGIN,
                                               origin[1], headers))
                          ELSE headers)),
                        response.body, response.pushes)]

(***************************************************************************)
(* CORSMiddleware.__call__: which path a request takes                     *)
(***************************************************************************)

\* A plausible bug: the test for a missing Origin header is left out.
dispatch_never_passes(request) ==
  IF /\ has_header(ORIGIN, request.headers)
     /\ request.method = "OPTIONS"
     /\ has_header(ACCESS_CONTROL_REQUEST_METHOD, request.headers)
  THEN "preflight"
  ELSE "simple"

\* Lines 236-253: "pass", "preflight" or "simple".
dispatch(request) ==
  IF ~has_header(ORIGIN, request.headers) THEN "pass"
  ELSE IF /\ request.method = "OPTIONS"
          /\ has_header(ACCESS_CONTROL_REQUEST_METHOD, request.headers)
  THEN "preflight"
  ELSE "simple"

(***************************************************************************)
(* The engine and the calls in flight                                      *)
(***************************************************************************)

VARIABLES
  args,   \* the keyword arguments the engine was constructed with
  self,   \* the engine's fields; simple_headers and preflight_headers are lists
  calls   \* per call slot: the call of __call__ running or last finished there

vars == <<args, self, calls>>

\* How many calls of __call__ may be suspended in `await handler(request)`
\* or finished and not yet replaced, at one time.
MaxInFlight == 2

Slots == 1..MaxInFlight

NoResponse == Exception("none")

\* A slot no call has used yet.
Idle ==
  [pc |-> "idle", path |-> "", request |-> [method |-> "", headers |-> <<>>],
   handler_calls |-> 0, handled |-> NoResponse, result |-> NoResponse,
   again |-> NoResponse]

\* A request: scope["method"] and scope["headers"], the optional headers
\* in the order origin, cookie, access-control-request-method,
\* access-control-request-headers.
Opt(name, value) == IF value = None THEN <<>> ELSE <<<<name, value[1]>>>>

Request(method, origin, cookie, acrm, acrh) ==
  [method |-> method,
   headers |-> Opt(ORIGIN, origin) \o Opt(COOKIE, cookie)
               \o Opt(ACCESS_CONTROL_REQUEST_METHOD, acrm)
               \o Opt(ACCESS_CONTROL_REQUEST_HEADERS, acrh)]

\* __init__: the engine right after construction with arguments a.
Constructed(a) ==
  /\ args = a
  /\ self = Construct(a)
  /\ calls = [i \in Slots |-> Idle]

\* __call__ on a request without Origin: `return await handler(request)`,
\* up to the await.
CallPassThrough(i, request) ==
  /\ calls[i].pc # "awaiting"
  /\ dispatch(request) = "pass"
  /\ calls' = [calls EXCEPT ![i] =
        [Idle EXCEPT !.pc = "awaiting", !.path = "pass", !.request = request,
                     !.handler_calls = 1]]
  /\ UNCHANGED <<args, self>>

\* __call__ on a preflight request: `return self._preflight_check(headers)`.
CallPreflight(i, request) ==
  /\ calls[i].pc # "awaiting"
  /\ dispatch(request) = "preflight"
  /\ calls' = [calls EXCEPT ![i] =
        [Idle EXCEPT !.pc = "returned", !.path = "preflight",
                     !.request = request,
                     !.result = preflight_check(self, request.headers)]]
  /\ UNCHANGED <<args, self>>

\* __call__ on any other request: _simple_response up to its
\* `await handler(request)`.
CallSimple(i, request) ==
  /\ calls[i].pc # "awaiting"
  /\ dispatch(request) = "simple"
  /\ calls' = [calls EXCEPT ![i] =
        [Idle EXCEPT !.pc = "awaiting", !.path = "simple", !.request = request,
                     !.handler_calls = 1]]
  /\ UNCHANGED <<args, self>>

\* The handler of a passed-through call returns: __call__ returns its
\* response.
ReturnPassThrough(i, response) ==
  /\ calls[i].pc = "awaiting"
  /\ calls[i].path = "pass"
  /\ calls' = [calls EXCEPT ![i].pc = "returned", ![i].handled = response,
                            ![i].result = response]
  /\ UNCHANGED <<args, self>>

\* The handler of a simple call returns: the rest of _simple_response runs
\* without another await.  `again` is what the same augmentation makes of
\* its own result, the engine left as this call leaves it.
ReturnSimple(i, response) ==
  /\ calls[i].pc = "awaiting"
  /\ calls[i].path = "simple"
  /\ LET out == simple_response(self, calls[i].request, response)
         after == [self EXCEPT !.simple_headers = out.simple_headers]
     IN  /\ self' = after
         /\ calls' = [calls EXCEPT
               ![i].pc = "returned", ![i].handled = response,
               ![i].result = out.result,
               ![i].again = IF out.result.raised # "" THEN out.result
                            ELSE simple_response(after, calls[i].request,
                                                 out.result).result]
  /\ UNCHANGED args

(***************************************************************************)
(* Inputs                                                                  *)
(***************************************************************************)

OriginA == <<"a">>
OriginB == <<"b">>
OriginD == <<"d">>
NotUtf8 == <<XFF>>
Empty == <<>>

\* The constructor arguments left at their defaults unless stated.
DefaultArgs ==
  [allow_origins |-> None, allow_methods |-> None, allow_headers |-> None,
   allow_credentials |-> FALSE, allow_origin_regex |-> None,
   expose_headers |-> None, max_age |-> max_age_default]

\* What a downstream handler may return.
PlainResponse == HttpResponse(200, None, <<"body">>, None)
TypedResponse ==
  HttpResponse(204, Some(<<<<"content-type", <<"json">>>>>>), Empty, None)

(***************************************************************************)
(* Spec: every path of __call__, calls interleaving at the await           *)
(***************************************************************************)

SpecArgs ==
  { [DefaultArgs EXCEPT !.allow_origins = o] : o \in {None, Some({OriginA})} }

SpecRequests ==
  { Request(m, o, None, rm, None) :
      m \in {"GET", "OPTIONS"},
      o \in {None, Some(OriginA)},
      rm \in {None, Some(<<"GET">>)} }
  \cup { Request("GET", Some(OriginA), Some(<<"c">>), None, None),
         Request("GET", Some(NotUtf8), None, None, None),
         Request("OPTIONS", Some(OriginB), None, Some(<<"GET">>), None),
         Request("OPTIONS", Some(OriginA), None, Some(NotUtf8), None) }

SpecResponses == {PlainResponse, TypedResponse}

Init == \E a \in SpecArgs : Constructed(a)

Next ==
  \E i \in Slots :
    \/ \E request \in SpecRequests : CallPassThrough(i, request)
    \/ \E request \in SpecRequests : CallPreflight(i, request)
    \/ \E request \in SpecRequests : CallSimple(i, request)
    \/ \E response \in SpecResponses : ReturnPassThrough(i, response)
    \/ \E response \in SpecResponses : ReturnSimple(i, response)

Spec == Init /\ [][Next]_vars

(***************************************************************************)
(* SpecWildcard: simple requests in flight on a wildcard-origin engine     *)
(***************************************************************************)

WildcardArgs ==
  { [DefaultArgs EXCEPT !.allow_credentials = c] : c \in BOOLEAN }

WildcardRequests ==
  { Request("GET", Some(o), c, None, None) :
      o \in {OriginA, OriginB},
      c \in {None, Some(Empty), Some(<<"c">>)} }

InitWildcard == \E a \in WildcardArgs : Constructed(a)

NextWildcard ==
  \E i \in Slots :
    \/ \E request \in WildcardRequests : CallSimple(i, request)
    \/ \E response \in SpecResponses : ReturnSimple(i, response)

SpecWildcard == InitWildcard /\ [][NextWildcard]_vars

(***************************************************************************)
(* SpecOrigins: the origin check under every kind of origin configuration  *)
(***************************************************************************)

OriginsArgs ==
  { [DefaultArgs EXCEPT !.allow_origins = o, !.allow_origin_regex = r] :
      o \in {None, Some({}), Some({OriginA})},
      r \in {None, Some(OriginB)} }

\* OriginA is in the explicit set, the pattern matches OriginB and every
\* origin that starts with it, OriginD is in neither.
OriginsRequests ==
  { Request(m, Some(o), None, Some(<<"GET">>), None) :
      m \in {"GET", "OPTIONS"},
      o \in {OriginA, OriginB, OriginB \o OriginD, OriginD, NotUtf8} }

InitOrigins == \E a \in OriginsArgs : Constructed(a)

NextOrigins ==
  \E i \in Slots :
    \/ \E request \in OriginsRequests : CallPreflight(i, request)
    \/ \E request \in OriginsRequests : CallSimple(i, request)
    \/ ReturnSimple(i, PlainResponse)

SpecOrigins == InitOrigins /\ [][NextOrigins]_vars

(***************************************************************************)
(* SpecPreflight: preflight requests under every kind of allow-list        *)
(***************************************************************************)

HeaderX == <<"x">>
HeaderY == <<"y">>

PreflightArgs ==
  { [DefaultArgs EXCEPT !.allow_origins = o, !.allow_methods = m,
                        !.allow_headers = h] :
      o \in {None, Some({OriginA})},
      m \in {None, Some({<<"GET">>})},
      h \in {None, Some({}), Some({HeaderX, HeaderY})} }

PreflightRequests ==
  { Request("OPTIONS", Some(o), None, Some(rm), rh) :
      o \in {OriginA, OriginB},
      rm \in {<<"GET">>, <<"TRACE">>},
      rh \in {None, Some(HeaderX), Some(HeaderX \o <<COMMA, SP>> \o HeaderY),
              Some(HeaderX \o <<COMMA>> \o <<"z">>)} }

InitPreflight == \E a \in PreflightArgs : Constructed(a)

NextPreflight ==
  \E i \in Slots : \E request \in PreflightRequests : CallPreflight(i, request)

SpecPreflight == InitPreflight /\ [][NextPreflight]_vars

(***************************************************************************)
(* SpecSimple: simple requests over handlers that set headers of their own *)
(***************************************************************************)

SimpleArgs ==
  { [DefaultArgs EXCEPT !.allow_origins = o, !.allow_credentials = c,
                        !.expose_headers = IF c THEN Some({<<"etag">>}) ELSE None] :
      o \in {None, Some({OriginA})}, c \in BOOLEAN }

SimpleRequests ==
  { Request("GET", Some(o), c, None, None) :
      o \in {OriginA, OriginB}, c \in {None, Some(<<"c">>)} }

SimpleResponses ==
  { HttpResponse(200, h, <<"body">>, None) :
      h \in { None,
              Some(<<<<VARY, <<"Accept-Encoding">>>>>>),
              Some(<<<<VARY, Empty>>>>),
              Some(<<<<ACCESS_CONTROL_ALLOW_ORIGIN, OriginD>>,
                     <<ACCESS_CONTROL_ALLOW_ORIGIN, OriginD>>>>),
              Some(<<<<VARY, <<"Accept">>>>, <<VARY, <<"Cookie">>>>>>) } }

InitSimple == \E a \in SimpleArgs : Constructed(a)

NextSimple ==
  \E i \in Slots :
    \/ \E request \in SimpleRequests : CallSimple(i, request)
    \/ \E response \in SimpleResponses : ReturnSimple(i, response)

SpecSimple == InitSimple /\ [][NextSimple]_vars

(***************************************************************************)
(* SpecExplicit: explicit-origin engines; preflight and simple requests    *)
(* over handlers whose header lists repeat no name                         *)
(***************************************************************************)

ExplicitArgs ==
  { [DefaultArgs EXCEPT !.allow_origins = Some({OriginA}),
                        !.allow_origin_regex = r,
                        !.allow_credentials = c,
                        !.expose_headers = IF c THEN Some({<<"etag">>}) ELSE None] :
      r \in {None, Some(OriginB)}, c \in BOOLEAN }

\* OriginA is in the explicit set, the pattern matches OriginB, OriginD is
\* in neither.
ExplicitRequests ==
  { Request("GET", Some(o), None, None, None) : o \in {OriginA, OriginB, OriginD} }
  \cup { Request("OPTIONS", Some(o), None, Some(<<"GET">>), None) :
           o \in {OriginA, OriginD} }
  \cup { Request("GET", Some(OriginD), Some(<<"c">>), None, None) }

ExplicitResponses ==
  { HttpResponse(200, h, <<"body">>, None) :
      h \in { None,
              Some(<<<<VARY, <<"Accept-Encoding">>>>>>),
              Some(<<<<VARY, Empty>>>>),
              Some(<<<<"content-type", <<"json">>>>,
                     <<ACCESS_CONTROL_ALLOW_ORIGIN, OriginD>>>>) } }

InitExplicit == \E a \in ExplicitArgs : Constructed(a)

NextExplicit ==
  \E i \in Slots :
    \/ \E request \in ExplicitRequests : CallPreflight(i, request)
    \/ \E request \in ExplicitRequests : CallSimple(i, request)
    \/ \E response \in ExplicitResponses : ReturnSimple(i, response)

SpecExplicit == InitExplicit /\ [][NextExplicit]_vars

(***************************************************************************)
(* What the claims speak of                                                *)
(***************************************************************************)

\* The calls that have returned (or raised).
Returned == { i \in Slots : calls[i].pc = "returned" }

\* The calls that have returned on the given path.
ReturnedOn(path) == { i \in Returned : calls[i].path = path }

\* The values a header list holds under a name.
ValuesOf(name, headers) ==
  { headers[k][2] : k \in { j \in 1..Len(headers) : headers[j][1] = name } }

\* The values a call's response holds under a name; no response, no values.
ResponseValues(i, name) ==
  IF calls[i].result.raised # "" \/ calls[i].result.headers = None
  THEN {}
  ELSE ValuesOf(name, calls[i].result.headers[1])

\* The request headers of a call.
RequestHeaders(i) == calls[i].request.headers

\* The engine was constructed without allow_origins.
WildcardEngine == args.allow_origins = None

\* A header list without its vary headers.
WithoutVary(headers) == SelectSeq(headers, LAMBDA h : h[1] # VARY)

\* The text starts with the words.
StartsWith(text, words) ==
  Len(text) >= Len(words) /\ SubSeq(text, 1, Len(words)) = words

\* The call ended with the engine's own 200 "OK".
IsOk(i) ==
  /\ calls[i].result.raised = ""
  /\ calls[i].result.status = 200
  /\ calls[i].result.body = <<"OK">>

\* The call ended with a 400 whose body starts with "Invalid <what> ".
IsInvalid(i, what) ==
  /\ calls[i].result.raised = ""
  /\ calls[i].result.status = 400
  /\ StartsWith(calls[i].result.body, <<"Invalid", SP, what, SP>>)

(***************************************************************************)
(* C1.  In a wildcard-origin engine every simple request that carries an   *)
(* Origin header and no Cookie header gets a response whose                *)
(* access-control-allow-origin is exactly "*", whatever the engine         *)
(* processed before.                                                       *)
(***************************************************************************)
C1_WildcardWithoutCookieGetsStar ==
  \A i \in ReturnedOn("simple") :
    (WildcardEngine /\ ~has_header(COOKIE, RequestHeaders(i)))
      => ResponseValues(i, ACCESS_CONTROL_ALLOW_ORIGIN) = {<<"*">>}

(***************************************************************************)
(* C2.  After construction the engine's simple_headers and                 *)
(* preflight_headers are never changed: through any sequence of calls both *)
(* equal the lists __init__ computed.                                      *)
(***************************************************************************)
C2_HeaderListsNeverChange ==
  /\ self.simple_headers = Construct(args).simple_headers
  /\ self.preflight_headers = Construct(args).preflight_headers

(***************************************************************************)
(* C3.  For simple requests in flight together on a wildcard-origin        *)
(* engine, the access-control-allow-origin of each response depends only   *)
(* on the request's own Origin and Cookie headers: it is "*" or the        *)
(* request's own origin, never the origin substituted for another request, *)
(* and two requests with the same Origin and Cookie headers get the same.  *)
(***************************************************************************)
C3_NoOriginOfAnotherRequest ==
  WildcardEngine =>
    \A i \in ReturnedOn("simple") :
      /\ ResponseValues(i, ACCESS_CONTROL_ALLOW_ORIGIN)
           \subseteq {<<"*">>, first_value(ORIGIN, RequestHeaders(i))}
      /\ \A j \in ReturnedOn("simple") :
           RequestHeaders(j) = RequestHeaders(i)
             => ResponseValues(j, ACCESS_CONTROL_ALLOW_ORIGIN)
                  = ResponseValues(i, ACCESS_CONTROL_ALLOW_ORIGIN)

(***************************************************************************)
(* C4.  In a wildcard-origin engine every simple request that carries both *)
(* an Origin header and a Cookie header gets a response whose              *)
(* access-control-allow-origin is the request's own Origin value and not   *)
(* "*", allow_credentials set or not.                                      *)
(***************************************************************************)
C4_WildcardWithCookieMirrorsOrigin ==
  \A i \in ReturnedOn("simple") :
    (WildcardEngine /\ has_header(COOKIE, RequestHeaders(i)))
      => /\ ResponseValues(i, ACCESS_CONTROL_ALLOW_ORIGIN)
              = {first_value(ORIGIN, RequestHeaders(i))}
         /\ <<"*">> \notin ResponseValues(i, ACCESS_CONTROL_ALLOW_ORIGIN)

(***************************************************************************)
(* C5.  A request with no Origin header is passed through: the handler is  *)
(* invoked exactly once with the request, the engine's response is the     *)
(* handler's response (status, headers, body) with no header added, and no *)
(* step of the call changes the engine's state.                            *)
(***************************************************************************)
C5_NoOriginPassesThrough ==
  [][ \A i \in Slots :
        (calls'[i].pc # "idle" /\ ~has_header(ORIGIN, calls'[i].request.headers))
          => /\ calls'[i].path = "pass"
             /\ calls'[i].handler_calls = 1
             /\ calls'[i].pc = "returned"
                  => /\ calls'[i].result.raised = ""
                     /\ calls'[i].result = calls'[i].handled
             /\ calls'[i] # calls[i] => self' = self ]_vars

\* A call without Origin has returned the handler's response, headers and
\* all, on an engine that an earlier call has left changed or not.
C5_Witness ==
  \E i \in ReturnedOn("pass") :
    /\ ~has_header(ORIGIN, RequestHeaders(i))
    /\ calls[i].request.method = "OPTIONS"
    /\ has_header(ACCESS_CONTROL_REQUEST_METHOD, RequestHeaders(i))
    /\ calls[i].result = TypedResponse

(***************************************************************************)
(* C6.  A request is treated as a preflight exactly when it has an Origin  *)
(* header, its method is OPTIONS and it has an                             *)
(* Access-Control-Request-Method header; for every such request the        *)
(* handler is never invoked and the engine returns a response that is 200  *)
(* with body "OK" or 400 with a failure reason, never an exception.  Every *)
(* other request with an Origin header reaches the handler exactly once.   *)
(***************************************************************************)
C6_PreflightAnsweredByEngine ==
  \A i \in Slots :
    calls[i].pc # "idle" =>
      LET preflight ==
            /\ has_header(ORIGIN, RequestHeaders(i))
            /\ calls[i].request.method = "OPTIONS"
            /\ has_header(ACCESS_CONTROL_REQUEST_METHOD, RequestHeaders(i))
      IN  /\ (calls[i].path = "preflight") <=> preflight
          /\ preflight =>
               /\ calls[i].handler_calls = 0
               /\ calls[i].pc = "returned"
               /\ calls[i].result.raised = ""
               /\ IsOk(i) \/ (calls[i].result.status = 400
                               /\ StartsWith(calls[i].result.body, <<"Invalid">>))
          /\ (has_header(ORIGIN, RequestHeaders(i)) /\ ~preflight)
               => calls[i].handler_calls = 1

(***************************************************************************)
(* C7.  isAllowedOrigin(O) is, for every origin string O and every         *)
(* configuration: true in wildcard mode (also with a regex configured that *)
(* does not match O); otherwise true iff the configured regex (if any)     *)
(* matches O or O is in the explicit allowed-origins set.  The preflight   *)
(* answer follows it: "Invalid origin" iff it is false.                    *)
(***************************************************************************)
C7_IsAllowedOrigin ==
  \A i \in Returned :
    LET origin == first_value(ORIGIN, RequestHeaders(i))
        expected ==
          \/ args.allow_origins = None
          \/ /\ args.allow_origin_regex # None
             /\ match(args.allow_origin_regex[1], origin)
          \/ origin \in args.allow_origins[1]
    IN  decode(origin).ok
          => /\ is_allowed_origin(self, origin) = Returns(expected)
             /\ calls[i].path = "preflight"
                  => /\ IsInvalid(i, "origin") <=> ~expected
                     /\ IsOk(i) <=> expected

\* A preflight from an origin that the configured regex does not match was
\* accepted by a wildcard engine, or rejected by an engine with an explicit
\* set that does not hold it.
C7_Witness ==
  \/ /\ args.allow_origins = None
     /\ args.allow_origin_regex # None
     /\ \E i \in ReturnedOn("preflight") :
          /\ first_value(ORIGIN, RequestHeaders(i)) = OriginD
          /\ IsOk(i)
  \/ /\ args.allow_origins = Some({OriginA})
     /\ args.allow_origin_regex # None
     /\ \E i \in ReturnedOn("preflight") :
          /\ first_value(ORIGIN, RequestHeaders(i)) = OriginD
          /\ IsInvalid(i, "origin")

(***************************************************************************)
(* C8.  As claimed: constructing the engine with allowedOrigins absent or  *)
(* with an empty set both yield wildcard mode, every origin is accepted    *)
(* and the precomputed origin header is "*".                               *)
(***************************************************************************)
C8_AbsentOrEmptyIsWildcard ==
  (args.allow_origins = None \/ args.allow_origins = Some({}))
    => \A i \in ReturnedOn("preflight") :
         decode(first_value(ORIGIN, RequestHeaders(i))).ok
           => /\ self.allow_all_origins
              /\ find(ACCESS_CONTROL_ALLOW_ORIGIN, self.preflight_headers)
                   = Some(<<"*">>)
              /\ IsOk(i)
              /\ ResponseValues(i, ACCESS_CONTROL_ALLOW_ORIGIN) = {<<"*">>}

(***************************************************************************)
(* C8, amended.  Constructing the engine with allowedOrigins absent yields *)
(* wildcard mode: every origin is accepted and the precomputed origin      *)
(* header is "*".  Constructing it with an empty set does not: no origin   *)
(* header is precomputed (the preflight list starts with vary: Origin), an *)
(* origin is accepted only when the configured regex matches it, and is    *)
(* then mirrored; with no regex every origin is rejected.                  *)
(***************************************************************************)
C8_OnlyAbsentIsWildcard ==
  /\ args.allow_origins = None
       => /\ self.allow_all_origins
          /\ find(ACCESS_CONTROL_ALLOW_ORIGIN, self.preflight_headers) = Some(<<"*">>)
          /\ find(ACCESS_CONTROL_ALLOW_ORIGIN, Construct(args).simple_headers)
               = Some(<<"*">>)
          /\ \A i \in ReturnedOn("preflight") :
               decode(first_value(ORIGIN, RequestHeaders(i))).ok
                 => /\ IsOk(i)
                    /\ ResponseValues(i, ACCESS_CONTROL_ALLOW_ORIGIN) = {<<"*">>}
  /\ args.allow_origins = Some({})
       => /\ ~self.allow_all_origins
          /\ find(ACCESS_CONTROL_ALLOW_ORIGIN, self.preflight_headers) = None
          /\ find(ACCESS_CONTROL_ALLOW_ORIGIN, self.simple_headers) = None
          /\ self.preflight_headers[1] = <<VARY, <<"Origin">>>>
          /\ \A i \in ReturnedOn("preflight") :
               LET origin == first_value(ORIGIN, RequestHeaders(i))
                   matched == /\ args.allow_origin_regex # None
                              /\ match(args.allow_origin_regex[1], origin)
               IN  decode(origin).ok
                     => /\ IsOk(i) <=> matched
                        /\ IsInvalid(i, "origin") <=> ~matched
                        /\ ResponseValues(i, ACCESS_CONTROL_ALLOW_ORIGIN)
                             = IF matched THEN {origin} ELSE {}

\* An engine constructed with an empty set and no regex has rejected a
\* preflight.
C8_Witness ==
  /\ args.allow_origins = Some({})
  /\ args.allow_origin_regex = None
  /\ \E i \in ReturnedOn("preflight") :
       /\ first_value(ORIGIN, RequestHeaders(i)) = OriginA
       /\ IsInvalid(i, "origin")

(***************************************************************************)
(* C9.  In a preflight whose origin and method checks pass, when           *)
(* allowedHeaders is a fixed allow-list (not "all"; the empty set          *)
(* included) and Access-Control-Request-Headers is present, the response   *)
(* is 400 with an invalid-header reason whenever at least one              *)
(* comma-separated, whitespace-trimmed requested token is not a member of  *)
(* allowedHeaders, and 200 only when every token is a member.              *)
(***************************************************************************)
C9_UnlistedHeaderIsRejected ==
  \A i \in ReturnedOn("preflight") :
    LET origin == first_value(ORIGIN, RequestHeaders(i))
        method == first_value(ACCESS_CONTROL_REQUEST_METHOD, RequestHeaders(i))
        requested == find(ACCESS_CONTROL_REQUEST_HEADERS, RequestHeaders(i))
        tokens == { strip(split(requested[1])[k]) :
                      k \in 1..Len(split(requested[1])) }
    IN  ( /\ is_allowed_origin(self, origin) = Returns(TRUE)
          /\ method \in (IF args.allow_methods = None THEN ALL_METHODS
                          ELSE args.allow_methods[1])
          /\ args.allow_headers # None
          /\ requested # None )
          => /\ (tokens \ args.allow_headers[1] # {}) => IsInvalid(i, "header")
             /\ IsOk(i) => tokens \subseteq args.allow_headers[1]
             /\ IsOk(i) \/ IsInvalid(i, "header")

(***************************************************************************)
(* C10.  As claimed: simple-response augmentation is idempotent on         *)
(* headers; augmenting its own result again for the same request yields    *)
(* the same header collection, the vary value included.                    *)
(***************************************************************************)
C10_AugmentingTwiceIsOnce ==
  \A i \in ReturnedOn("simple") :
    calls[i].result.raised = "" => calls[i].again = calls[i].result

(***************************************************************************)
(* C10, amended.  Augmenting its own result again for the same request     *)
(* yields the same header collection apart from the vary headers; it       *)
(* yields exactly the same collection when the engine is in wildcard mode  *)
(* or the origin is not allowed.  (With a mirrored origin each             *)
(* augmentation adds one more Origin to vary.)                             *)
(***************************************************************************)
C10_AugmentingTwiceIsOnceButVary ==
  \A i \in ReturnedOn("simple") :
    calls[i].result.raised = ""
      => /\ calls[i].again.raised = ""
         /\ calls[i].again.status = calls[i].result.status
         /\ calls[i].again.body = calls[i].result.body
         /\ WithoutVary(calls[i].again.headers[1])
              = WithoutVary(calls[i].result.headers[1])
         /\ ( \/ WildcardEngine
              \/ is_allowed_origin(self, first_value(ORIGIN, RequestHeaders(i)))
                   = Returns(FALSE) )
              => calls[i].again = calls[i].result
         /\ Len(calls[i].again.headers[1]) >= Len(calls[i].result.headers[1])

\* A simple call with a mirrored origin has returned, and augmenting its
\* result again gives another vary value; the handler had set headers that
\* the engine owns.
C10_Witness ==
  \E i \in ReturnedOn("simple") :
    /\ ~WildcardEngine
    /\ calls[i].result.raised = ""
    /\ calls[i].again # calls[i].result
    /\ calls[i].handled.headers # None
    /\ ValuesOf(ACCESS_CONTROL_ALLOW_ORIGIN, calls[i].handled.headers[1])
         = {OriginD}
    /\ args.allow_credentials

\* The names a header list holds more than once.
RepeatedNames(headers) ==
  { headers[k][1] : k \in { j \in 1..Len(headers) :
      \E m \in 1..Len(headers) : m # j /\ headers[m][1] = headers[j][1] } }

(***************************************************************************)
(* C11.  In every header collection the engine returns from the preflight  *)
(* path or the simple path no header name occurs more than once, whatever  *)
(* the downstream response.                                                *)
(***************************************************************************)
C11_NoHeaderNameTwice ==
  \A i \in ReturnedOn("preflight") \cup ReturnedOn("simple") :
    (calls[i].result.raised = "" /\ calls[i].result.headers # None)
      => RepeatedNames(calls[i].result.headers[1]) = {}

\* The configuration admits the origin: no explicit set, or the pattern
\* matches it from its start, or the explicit set holds it.
OriginAllowed(origin) ==
  \/ args.allow_origins = None
  \/ /\ args.allow_origin_regex # None
     /\ match(args.allow_origin_regex[1], origin)
  \/ origin \in args.allow_origins[1]

\* The header list the downstream handler gave the call.
HandledHeaders(i) ==
  IF calls[i].handled.headers = None THEN <<>> ELSE calls[i].handled.headers[1]

(***************************************************************************)
(* C12.  In an explicit-origin engine a simple request from an allowed     *)
(* origin gets access-control-allow-origin equal to the request origin and *)
(* a vary header naming Origin: `Origin` when the downstream response had  *)
(* no vary header, the downstream vary value with `,Origin` appended when  *)
(* it had one.                                                             *)
(***************************************************************************)
C12_AllowedOriginMirroredWithVary ==
  \A i \in ReturnedOn("simple") :
    LET origin == first_value(ORIGIN, RequestHeaders(i))
        downstream == find(VARY, HandledHeaders(i))
    IN  (~WildcardEngine /\ OriginAllowed(origin) /\ calls[i].result.raised = "")
          => /\ ResponseValues(i, ACCESS_CONTROL_ALLOW_ORIGIN) = {origin}
             /\ ResponseValues(i, VARY) =
                  IF downstream = None
                  THEN {<<"Origin">>}
                  ELSE {downstream[1] \o <<COMMA, "Origin">>}

\* The configuration admits the requested method.
MethodAllowed(method) ==
  method \in (IF args.allow_methods = None THEN ALL_METHODS
              ELSE args.allow_methods[1])

\* The requested headers of a call, split at commas and stripped.
RequestedTokens(i) ==
  LET requested == find(ACCESS_CONTROL_REQUEST_HEADERS, RequestHeaders(i))
  IN  IF requested = None THEN {}
      ELSE { strip(split(requested[1])[k]) : k \in 1..Len(split(requested[1])) }

\* The call asks for a header that a non-empty allow-list does not hold.
AsksUnlistedHeader(i) ==
  /\ args.allow_headers # None
  /\ args.allow_headers[1] # {}
  /\ RequestedTokens(i) \ args.allow_headers[1] # {}

(***************************************************************************)
(* C13.  Preflight validation is fail-fast in the order origin, method,    *)
(* requested headers: the 400 body names only the first check that fails,  *)
(* and the 400 headers are the precomputed preflight headers plus a        *)
(* mirrored access-control-allow-origin exactly when the engine is         *)
(* non-wildcard and the origin check passed before the failure; a 400      *)
(* never carries a mirrored access-control-allow-headers.                  *)
(***************************************************************************)
C13_PreflightFailsFast ==
  \A i \in ReturnedOn("preflight") :
    LET origin == first_value(ORIGIN, RequestHeaders(i))
        method == first_value(ACCESS_CONTROL_REQUEST_METHOD, RequestHeaders(i))
        result == calls[i].result
        mirrored == Append(self.preflight_headers,
                           <<ACCESS_CONTROL_ALLOW_ORIGIN, origin>>)
    IN  result.raised = ""
          => /\ ~OriginAllowed(origin)
                  => /\ result.status = 400
                     /\ result.body = <<"Invalid", SP, "origin", SP>> \o repr(origin)
                     /\ result.headers = Some(self.preflight_headers)
             /\ (OriginAllowed(origin) /\ ~MethodAllowed(method))
                  => /\ result.status = 400
                     /\ result.body = <<"Invalid", SP, "method", SP>> \o repr(method)
             /\ (OriginAllowed(origin) /\ MethodAllowed(method) /\ AsksUnlistedHeader(i))
                  => IsInvalid(i, "header")
             /\ IsInvalid(i, "header")
                  => /\ OriginAllowed(origin) /\ MethodAllowed(method)
                     /\ \E token \in RequestedTokens(i) \ args.allow_headers[1] :
                          StartsWith(result.body, <<"Invalid", SP, "header", SP>> \o token)
             /\ (result.status = 400 /\ OriginAllowed(origin))
                  => result.headers =
                       Some(IF WildcardEngine THEN self.preflight_headers ELSE mirrored)
             /\ result.status = 400
                  => ValuesOf(ACCESS_CONTROL_ALLOW_HEADERS, result.headers[1])
                       = ValuesOf(ACCESS_CONTROL_ALLOW_HEADERS, self.preflight_headers)

\* In one explicit-origin engine, a preflight failing all three checks was
\* answered "Invalid origin" without access-control-allow-origin, and one
\* failing the method and header checks "Invalid method" with the origin
\* mirrored.
C13_Witness ==
  /\ ~WildcardEngine
  /\ \E i \in ReturnedOn("preflight") :
       /\ ~OriginAllowed(first_value(ORIGIN, RequestHeaders(i)))
       /\ ~MethodAllowed(first_value(ACCESS_CONTROL_REQUEST_METHOD, RequestHeaders(i)))
       /\ AsksUnlistedHeader(i)
       /\ IsInvalid(i, "origin")
       /\ ResponseValues(i, ACCESS_CONTROL_ALLOW_ORIGIN) = {}
  /\ \E i \in ReturnedOn("preflight") :
       /\ OriginAllowed(first_value(ORIGIN, RequestHeaders(i)))
       /\ ~MethodAllowed(first_value(ACCESS_CONTROL_REQUEST_METHOD, RequestHeaders(i)))
       /\ AsksUnlistedHeader(i)
       /\ IsInvalid(i, "method")
       /\ ResponseValues(i, ACCESS_CONTROL_ALLOW_ORIGIN)
            = {first_value(ORIGIN, RequestHeaders(i))}

\* The credentials and expose-headers defaults of the simple path.
IsSimpleDefault(h) ==
  h[1] \in {ACCESS_CONTROL_ALLOW_CREDENTIALS, ACCESS_CONTROL_EXPOSE_HEADERS}

(***************************************************************************)
(* C14.  An explicit-origin engine never writes an                         *)
(* access-control-allow-origin value for an origin that isAllowedOrigin    *)
(* rejects.  On the simple path a rejected origin still reaches the        *)
(* downstream handler, and the engine adds neither                         *)
(* access-control-allow-origin nor vary, only the credentials and          *)
(* expose-headers defaults; when the downstream response sets no           *)
(* access-control-allow-origin, the final response has that header iff the *)
(* request origin is allowed, and then its value is the request origin.    *)
(***************************************************************************)
C14_NoAllowOriginForRejectedOrigin ==
  \A i \in Returned :
    LET origin == first_value(ORIGIN, RequestHeaders(i))
        result == calls[i].result
    IN  (~WildcardEngine /\ result.raised = "")
          => /\ calls[i].path = "preflight"
                  => ResponseValues(i, ACCESS_CONTROL_ALLOW_ORIGIN)
                       = IF OriginAllowed(origin) THEN {origin} ELSE {}
             /\ calls[i].path = "simple"
                  => /\ calls[i].handler_calls = 1
                     /\ ~OriginAllowed(origin)
                          => /\ SelectSeq(result.headers[1],
                                          LAMBDA h : ~IsSimpleDefault(h))
                                  = HandledHeaders(i)
                             /\ args.allow_credentials
                                  <=> ResponseValues(i, ACCESS_CONTROL_ALLOW_CREDENTIALS) # {}
                             /\ args.expose_headers # None
                                  <=> ResponseValues(i, ACCESS_CONTROL_EXPOSE_HEADERS) # {}
                     /\ ~has_header(ACCESS_CONTROL_ALLOW_ORIGIN, HandledHeaders(i))
                          => ResponseValues(i, ACCESS_CONTROL_ALLOW_ORIGIN)
                               = IF OriginAllowed(origin) THEN {origin} ELSE {}

\* In one engine with credentials configured, a simple request from a
\* rejected origin reached the handler and came back with the credentials
\* default but without access-control-allow-origin and vary, and one from
\* an allowed origin came back with its origin mirrored.
C14_Witness ==
  /\ ~WildcardEngine
  /\ args.allow_credentials
  /\ \E i \in ReturnedOn("simple") :
       /\ ~OriginAllowed(first_value(ORIGIN, RequestHeaders(i)))
       /\ calls[i].handler_calls = 1
       /\ HandledHeaders(i) = <<>>
       /\ ResponseValues(i, ACCESS_CONTROL_ALLOW_ORIGIN) = {}
       /\ ResponseValues(i, VARY) = {}
       /\ ResponseValues(i, ACCESS_CONTROL_ALLOW_CREDENTIALS) # {}
  /\ \E i \in ReturnedOn("simple") :
       /\ OriginAllowed(first_value(ORIGIN, RequestHeaders(i)))
       /\ HandledHeaders(i) = <<>>
       /\ ResponseValues(i, ACCESS_CONTROL_ALLOW_ORIGIN)
            = {first_value(ORIGIN, RequestHeaders(i))}

====
